---- MODULE Spec2Model ----
(***************************************************************************)
(* State machine of the seed-autocomplete widget (src/src/lib.rs).         *)
(*                                                                         *)
(* The widget state is the struct Model; every arm of Model::update is one *)
(* action, Model::set_suggestions is the embedder's action, and the view   *)
(* function is the action that re-renders the suggestion panel and thereby *)
(* decides which panel events the browser can deliver.                     *)
(*                                                                         *)
(* Option<T> is modelled as a sequence of length 0 (None) or 1 (Some(x)).  *)
(* A Rust panic (slice index out of bounds) is the flag `panicked`; the    *)
(* fields keep the values they had when the panic was raised and no        *)
(* further message is processed.                                           *)
(***************************************************************************)
EXTENDS Integers, Sequences, FiniteSets, TLC

\* Longest suggestion list the embedder passes to set_suggestions.
MaxLen == 3

\* The values of the type parameter Suggestion.
Suggestion == {"alpha", "beta"}

\* The texts carried by Msg::InputChange.
Texts == {"a", "al"}

\* KeyboardEvent.key_code() of a key whose key() is "Enter":
\* 13 is the Enter key, 229 an input-method composition confirmation.
EnterKeyCode == 13
ImeKeyCode == 229
KeyCodes == {EnterKeyCode, ImeKeyCode}

None == <<>>
Some(x) == <<x>>

\* The lists set_suggestions can be called with.
Lists == UNION {[1..n -> Suggestion] : n \in 0..MaxLen}

\* Longest run of identical arrow presses that is counted exactly.
MaxRun == MaxLen + 2

Min(a, b) == IF a < b THEN a ELSE b
Max(a, b) == IF a > b THEN a ELSE b

VARIABLES
  selected,            \* Option<Suggestion>
  suggestions,         \* Vec<Suggestion>
  is_open,             \* bool
  highlighted_index,   \* Option<usize>
  ignore_blur,         \* bool
  ignore_focus,        \* bool
  panicked,            \* update panicked (index out of bounds)
  notified,            \* handler calls made by the last message, in order
  lastMsg,             \* the last message processed (history)
  run_down,            \* consecutive ArrowDown presses counted from no highlight (history)
  run_up,              \* consecutive ArrowUp presses counted from no highlight (history)
  race,                \* progress of the order SetIgnoreSuggestionBlur(true), Blur, Focus, Click from an open panel (history)
  lifted,              \* ignore_blur was cleared and no SetIgnoreSuggestionBlur(true) came since (history)
  armed,               \* progress of the order suppressed InputBlur, Escape or SuggestionClick, InputFocus with no InputFocus before the last (history)
  view_open,           \* the suggestion panel is in the rendered view
  view_rows,           \* number of suggestion rows in the rendered view
  msgs,                \* example: messages sent with orders.send_msg and not yet processed
  search_previous,     \* example: TSTSet of the searches submitted so far
  search_input_value,  \* example: String, the text of the search input
  search,              \* example: Option<String>, the last search
  assert_failed        \* example: the assertion of Msg::SearchSelected failed

vars == <<selected, suggestions, is_open, highlighted_index, ignore_blur,
          ignore_focus, panicked, notified, lastMsg, run_down, run_up,
          race, lifted, armed, view_open, view_rows, msgs, search_previous,
          search_input_value, search, assert_failed>>

\* The fields of struct Model that update and set_suggestions write.
model == <<selected, suggestions, is_open, highlighted_index, ignore_blur,
           ignore_focus>>

view_vars == <<view_open, view_rows>>

\* The state of the embedder: the search part of the example's Model and its
\* pending messages.
search_vars == <<msgs, search_previous, search_input_value, search,
                 assert_failed>>

\* The three handler calls update makes.
input_changed(value) == [type |-> "input_changed", arg |-> value]
suggestion_selected(item) == [type |-> "suggestion_selected", arg |-> item]
submit == [type |-> "submit", arg |-> ""]

\* A handler returns Option<Ms>; `handlers` is the set of the handlers that
\* return Some.  orders.send_msg is called, in call order, for those.
HandlerConfigs == SUBSET {"input_changed", "suggestion_selected", "submit"}

RECURSIVE send_msg(_, _)
send_msg(calls, handlers) ==
  IF calls = <<>> THEN <<>>
  ELSE IF Head(calls).type \in handlers
       THEN <<Head(calls)>> \o send_msg(Tail(calls), handlers)
       ELSE send_msg(Tail(calls), handlers)

\* Model::new
Init ==
  /\ selected = None
  /\ suggestions = <<>>
  /\ is_open = FALSE
  /\ highlighted_index = None
  /\ ignore_blur = FALSE
  /\ ignore_focus = FALSE
  /\ panicked = FALSE
  /\ notified = <<>>
  /\ lastMsg = [type |-> "new"]
  /\ run_down = 0
  /\ run_up = 0
  /\ race = 0
  /\ lifted = FALSE
  /\ armed = 0
  /\ view_open = FALSE
  /\ view_rows = 0

\* The example's fn init, search part: no previous search, empty input.
init ==
  /\ msgs = <<>>
  /\ search_previous = {}
  /\ search_input_value = ""
  /\ search = None
  /\ assert_failed = FALSE

\* set_suggestions that also drops a selection the new list does not hold.
set_suggestions_dropping(list) ==
  /\ ~panicked
  /\ suggestions' = list
  /\ selected' = IF selected # None /\ \A i \in 1..Len(list) : list[i] # selected[1]
                 THEN None ELSE selected
  /\ notified' = <<>>
  /\ lastMsg' = [type |-> "set_suggestions", list |-> list]
  /\ race' = 0
  /\ lifted' = lifted
  /\ armed' = IF armed = 3 THEN 0 ELSE armed
  /\ run_down' = 0
  /\ run_up' = 0
  /\ UNCHANGED <<is_open, highlighted_index, ignore_blur, ignore_focus,
                 panicked, view_vars>>

\* set_suggestions that closes the panel when the new list is empty.
set_suggestions_closing_empty(list) ==
  /\ ~panicked
  /\ suggestions' = list
  /\ notified' = <<>>
  /\ lastMsg' = [type |-> "set_suggestions", list |-> list]
  /\ race' = 0
  /\ lifted' = lifted
  /\ armed' = IF armed = 3 THEN 0 ELSE armed
  /\ run_down' = 0
  /\ run_up' = 0
  /\ is_open' = IF list = <<>> THEN FALSE ELSE is_open
  /\ UNCHANGED <<selected, highlighted_index, ignore_blur,
                 ignore_focus, panicked, view_vars>>

\* Model::set_suggestions
set_suggestions(list) ==
  /\ ~panicked
  /\ suggestions' = list
  /\ notified' = <<>>
  /\ lastMsg' = [type |-> "set_suggestions", list |-> list]
  /\ race' = 0
  /\ lifted' = lifted
  /\ armed' = IF armed = 3 THEN 0 ELSE armed
  /\ run_down' = 0
  /\ run_up' = 0
  /\ UNCHANGED <<selected, is_open, highlighted_index, ignore_blur,
                 ignore_focus, panicked, view_vars>>

\* InputChange that also opens the panel, as the other keys do.
InputChange_opening(value) ==
  /\ ~panicked
  /\ is_open' = TRUE
  /\ notified' = <<input_changed(value)>>
  /\ lastMsg' = [type |-> "InputChange", value |-> value]
  /\ race' = 0
  /\ lifted' = lifted
  /\ armed' = IF armed = 3 THEN 0 ELSE armed
  /\ run_down' = 0
  /\ run_up' = 0
  /\ UNCHANGED <<selected, suggestions, highlighted_index, ignore_blur,
                 ignore_focus, panicked, view_vars>>

\* Msg::InputChange
InputChange(value) ==
  /\ ~panicked
  /\ notified' = <<input_changed(value)>>
  /\ lastMsg' = [type |-> "InputChange", value |-> value]
  /\ race' = 0
  /\ lifted' = lifted
  /\ armed' = IF armed = 3 THEN 0 ELSE armed
  /\ run_down' = 0
  /\ run_up' = 0
  /\ UNCHANGED <<model, panicked, view_vars>>

\* InputFocus that swallows the event without clearing ignore_focus.
InputFocus_keeping_flag ==
  /\ ~panicked
  /\ IF ignore_focus
     THEN UNCHANGED <<ignore_focus, is_open>>
     ELSE /\ is_open' = TRUE
          /\ UNCHANGED ignore_focus
  /\ notified' = <<>>
  /\ lastMsg' = [type |-> "InputFocus", swallowed |-> ignore_focus]
  /\ race' = IF race = 2 THEN 3 ELSE 0
  /\ lifted' = lifted
  /\ armed' = IF armed = 2 THEN 3 ELSE 0
  /\ run_down' = 0
  /\ run_up' = 0
  /\ UNCHANGED <<selected, suggestions, highlighted_index, ignore_blur,
                 panicked, view_vars>>

\* Msg::InputFocus
InputFocus ==
  /\ ~panicked
  /\ IF ignore_focus
     THEN /\ ignore_focus' = FALSE
          /\ UNCHANGED is_open
     ELSE /\ is_open' = TRUE
          /\ UNCHANGED ignore_focus
  /\ notified' = <<>>
  /\ lastMsg' = [type |-> "InputFocus", swallowed |-> ignore_focus]
  /\ race' = IF race = 2 THEN 3 ELSE 0
  /\ lifted' = lifted
  /\ armed' = IF armed = 2 THEN 3 ELSE 0
  /\ run_down' = 0
  /\ run_up' = 0
  /\ UNCHANGED <<selected, suggestions, highlighted_index, ignore_blur,
                 panicked, view_vars>>

\* InputBlur that closes the panel whatever ignore_blur is.
InputBlur_always_closing ==
  /\ ~panicked
  /\ is_open' = FALSE
  /\ highlighted_index' = None
  /\ UNCHANGED ignore_focus
  /\ notified' = <<>>
  /\ lastMsg' = [type |-> "InputBlur", suppressed |-> ignore_blur]
  /\ race' = IF race = 1 THEN 2 ELSE 0
  /\ lifted' = lifted
  /\ armed' = IF ignore_blur THEN (IF armed = 2 THEN 2 ELSE 1)
             ELSE IF armed = 3 THEN 0 ELSE armed
  /\ run_down' = 0
  /\ run_up' = 0
  /\ UNCHANGED <<selected, suggestions, ignore_blur, panicked, view_vars>>

\* Msg::InputBlur.  The blur event comes from the rendered input element, so
\* input_ref.get() is Some and the forced focus() succeeds.
InputBlur ==
  /\ ~panicked
  /\ IF ignore_blur
     THEN /\ ignore_focus' = TRUE
          /\ UNCHANGED <<is_open, highlighted_index>>
     ELSE /\ is_open' = FALSE
          /\ highlighted_index' = None
          /\ UNCHANGED ignore_focus
  /\ notified' = <<>>
  /\ lastMsg' = [type |-> "InputBlur", suppressed |-> ignore_blur]
  /\ race' = IF race = 1 THEN 2 ELSE 0
  /\ lifted' = lifted
  /\ armed' = IF ignore_blur THEN (IF armed = 2 THEN 2 ELSE 1)
             ELSE IF armed = 3 THEN 0 ELSE armed
  /\ run_down' = 0
  /\ run_up' = 0
  /\ UNCHANGED <<selected, suggestions, ignore_blur, panicked, view_vars>>

\* Msg::SetIgnoreSuggestionBlur, sent by the handlers of the rendered panel.
SetIgnoreSuggestionBlur(value) ==
  /\ ~panicked
  /\ view_open
  /\ ignore_blur' = value
  /\ notified' = <<>>
  /\ lastMsg' = [type |-> "SetIgnoreSuggestionBlur", value |-> value]
  /\ race' = IF value /\ is_open THEN 1 ELSE 0
  /\ lifted' = ~value
  /\ armed' = IF armed = 3 THEN 0 ELSE armed
  /\ run_down' = 0
  /\ run_up' = 0
  /\ UNCHANGED <<selected, suggestions, is_open, highlighted_index,
                 ignore_focus, panicked, view_vars>>

\* ArrowDown with the bound test off by one (index <= len).
KeyArrowDown_off_by_one ==
  /\ ~panicked
  /\ IF suggestions = <<>>
     THEN UNCHANGED <<highlighted_index, is_open>>
     ELSE LET index == IF highlighted_index = None THEN 0
                       ELSE highlighted_index[1] + 1
          IN IF index <= Len(suggestions)
             THEN /\ highlighted_index' = Some(index)
                  /\ is_open' = TRUE
             ELSE UNCHANGED <<highlighted_index, is_open>>
  /\ notified' = <<>>
  /\ lastMsg' = [type |-> "InputKeyDown", key |-> "ArrowDown"]
  /\ race' = 0
  /\ lifted' = lifted
  /\ armed' = IF armed = 3 THEN 0 ELSE armed
  /\ run_down' = IF suggestions = <<>> THEN 0
                 ELSE IF run_down > 0 THEN Min(run_down + 1, MaxRun)
                 ELSE IF highlighted_index = None THEN 1 ELSE 0
  /\ run_up' = 0
  /\ UNCHANGED <<selected, suggestions, ignore_blur, ignore_focus, panicked,
                 view_vars>>

\* Msg::InputKeyDown, key() = "ArrowDown"
KeyArrowDown ==
  /\ ~panicked
  /\ IF suggestions = <<>>
     THEN UNCHANGED <<highlighted_index, is_open>>
     ELSE LET index == IF highlighted_index = None THEN 0
                       ELSE highlighted_index[1] + 1
          IN IF index < Len(suggestions)
             THEN /\ highlighted_index' = Some(index)
                  /\ is_open' = TRUE
             ELSE UNCHANGED <<highlighted_index, is_open>>
  /\ notified' = <<>>
  /\ lastMsg' = [type |-> "InputKeyDown", key |-> "ArrowDown"]
  /\ race' = 0
  /\ lifted' = lifted
  /\ armed' = IF armed = 3 THEN 0 ELSE armed
  /\ run_down' = IF suggestions = <<>> THEN 0
                 ELSE IF run_down > 0 THEN Min(run_down + 1, MaxRun)
                 ELSE IF highlighted_index = None THEN 1 ELSE 0
  /\ run_up' = 0
  /\ UNCHANGED <<selected, suggestions, ignore_blur, ignore_focus, panicked,
                 view_vars>>

\* ArrowUp that wraps from index 0 to the last index.
KeyArrowUp_wrapping ==
  /\ ~panicked
  /\ IF suggestions = <<>>
     THEN UNCHANGED <<highlighted_index, is_open>>
     ELSE LET index == IF highlighted_index = None THEN Len(suggestions)
                       ELSE highlighted_index[1]
          IN /\ highlighted_index' = IF index > 0 THEN Some(index - 1)
                                     ELSE Some(Len(suggestions) - 1)
             /\ is_open' = TRUE
  /\ notified' = <<>>
  /\ lastMsg' = [type |-> "InputKeyDown", key |-> "ArrowUp"]
  /\ race' = 0
  /\ lifted' = lifted
  /\ armed' = IF armed = 3 THEN 0 ELSE armed
  /\ run_up' = IF suggestions = <<>> THEN 0
               ELSE IF run_up > 0 THEN Min(run_up + 1, MaxRun)
               ELSE IF highlighted_index = None THEN 1 ELSE 0
  /\ run_down' = 0
  /\ UNCHANGED <<selected, suggestions, ignore_blur, ignore_focus, panicked,
                 view_vars>>

\* Msg::InputKeyDown, key() = "ArrowUp"
KeyArrowUp ==
  /\ ~panicked
  /\ IF suggestions = <<>>
     THEN UNCHANGED <<highlighted_index, is_open>>
     ELSE LET index == IF highlighted_index = None THEN Len(suggestions)
                       ELSE highlighted_index[1]
          IN IF index > 0
             THEN /\ highlighted_index' = Some(index - 1)
                  /\ is_open' = TRUE
             ELSE UNCHANGED <<highlighted_index, is_open>>
  /\ notified' = <<>>
  /\ lastMsg' = [type |-> "InputKeyDown", key |-> "ArrowUp"]
  /\ race' = 0
  /\ lifted' = lifted
  /\ armed' = IF armed = 3 THEN 0 ELSE armed
  /\ run_up' = IF suggestions = <<>> THEN 0
               ELSE IF run_up > 0 THEN Min(run_up + 1, MaxRun)
               ELSE IF highlighted_index = None THEN 1 ELSE 0
  /\ run_down' = 0
  /\ UNCHANGED <<selected, suggestions, ignore_blur, ignore_focus, panicked,
                 view_vars>>

\* Enter that leaves an open panel without a highlight open.
KeyEnter_staying_open(key_code) ==
  /\ ~panicked
  /\ lastMsg' = [type |-> "InputKeyDown", key |-> "Enter", key_code |-> key_code,
                  was_open |-> is_open]
  /\ race' = 0
  /\ lifted' = IF key_code = EnterKeyCode THEN TRUE ELSE lifted
  /\ armed' = IF armed = 3 THEN 0 ELSE armed
  /\ run_down' = 0
  /\ run_up' = 0
  /\ IF key_code # EnterKeyCode
     THEN /\ notified' = <<>>
          /\ UNCHANGED <<model, panicked>>
     ELSE /\ ignore_blur' = FALSE
          /\ IF ~is_open
             THEN /\ notified' = <<submit>>
                  /\ UNCHANGED <<selected, is_open, highlighted_index, panicked>>
             ELSE IF highlighted_index # None
             THEN IF highlighted_index[1] < Len(suggestions)
                  THEN LET item == suggestions[highlighted_index[1] + 1]
                       IN /\ is_open' = FALSE
                          /\ highlighted_index' = None
                          /\ selected' = Some(item)
                          /\ notified' = <<suggestion_selected(item), submit>>
                          /\ UNCHANGED panicked
                  ELSE /\ panicked' = TRUE
                       /\ notified' = <<>>
                       /\ UNCHANGED <<selected, is_open, highlighted_index>>
             ELSE /\ notified' = <<submit>>
                  /\ UNCHANGED <<selected, is_open, highlighted_index, panicked>>
          /\ UNCHANGED <<suggestions, ignore_focus>>
  /\ UNCHANGED view_vars

\* Enter that clears ignore_blur before it tests the key code.
KeyEnter_ime_clearing(key_code) ==
  /\ ~panicked
  /\ lastMsg' = [type |-> "InputKeyDown", key |-> "Enter", key_code |-> key_code,
                  was_open |-> is_open]
  /\ race' = 0
  /\ lifted' = IF key_code = EnterKeyCode THEN TRUE ELSE lifted
  /\ armed' = IF armed = 3 THEN 0 ELSE armed
  /\ run_down' = 0
  /\ run_up' = 0
  /\ IF key_code # EnterKeyCode
     THEN /\ notified' = <<>>
          /\ ignore_blur' = FALSE
          /\ UNCHANGED <<selected, suggestions, is_open, highlighted_index,
                         ignore_focus, panicked>>
     ELSE /\ ignore_blur' = FALSE
          /\ IF ~is_open
             THEN /\ notified' = <<submit>>
                  /\ UNCHANGED <<selected, is_open, highlighted_index, panicked>>
             ELSE IF highlighted_index # None
             THEN IF highlighted_index[1] < Len(suggestions)
                  THEN LET item == suggestions[highlighted_index[1] + 1]
                       IN /\ is_open' = FALSE
                          /\ highlighted_index' = None
                          /\ selected' = Some(item)
                          /\ notified' = <<suggestion_selected(item), submit>>
                          /\ UNCHANGED panicked
                  ELSE /\ panicked' = TRUE
                       /\ notified' = <<>>
                       /\ UNCHANGED <<selected, is_open, highlighted_index>>
             ELSE /\ is_open' = FALSE
                  /\ notified' = <<submit>>
                  /\ UNCHANGED <<selected, highlighted_index, panicked>>
          /\ UNCHANGED <<suggestions, ignore_focus>>
  /\ UNCHANGED view_vars

\* Msg::InputKeyDown, key() = "Enter".  Vec indexing is 0-based: the item at
\* index i is suggestions[i + 1] here, and an index >= len() panics.
KeyEnter(key_code) ==
  /\ ~panicked
  /\ lastMsg' = [type |-> "InputKeyDown", key |-> "Enter", key_code |-> key_code,
                  was_open |-> is_open]
  /\ race' = 0
  /\ lifted' = IF key_code = EnterKeyCode THEN TRUE ELSE lifted
  /\ armed' = IF armed = 3 THEN 0 ELSE armed
  /\ run_down' = 0
  /\ run_up' = 0
  /\ IF key_code # EnterKeyCode
     THEN /\ notified' = <<>>
          /\ UNCHANGED <<model, panicked>>
     ELSE /\ ignore_blur' = FALSE
          /\ IF ~is_open
             THEN /\ notified' = <<submit>>
                  /\ UNCHANGED <<selected, is_open, highlighted_index, panicked>>
             ELSE IF highlighted_index # None
             THEN IF highlighted_index[1] < Len(suggestions)
                  THEN LET item == suggestions[highlighted_index[1] + 1]
                       IN /\ is_open' = FALSE
                          /\ highlighted_index' = None
                          /\ selected' = Some(item)
                          /\ notified' = <<suggestion_selected(item), submit>>
                          /\ UNCHANGED panicked
                  ELSE /\ panicked' = TRUE
                       /\ notified' = <<>>
                       /\ UNCHANGED <<selected, is_open, highlighted_index>>
             ELSE /\ is_open' = FALSE
                  /\ notified' = <<submit>>
                  /\ UNCHANGED <<selected, highlighted_index, panicked>>
          /\ UNCHANGED <<suggestions, ignore_focus>>
  /\ UNCHANGED view_vars

\* Escape that closes the panel and keeps the highlight.
KeyEscape_keeping_highlight ==
  /\ ~panicked
  /\ ignore_blur' = FALSE
  /\ is_open' = FALSE
  /\ notified' = <<>>
  /\ lastMsg' = [type |-> "InputKeyDown", key |-> "Escape"]
  /\ race' = 0
  /\ lifted' = TRUE
  /\ armed' = IF armed \in {1, 2} THEN 2 ELSE 0
  /\ run_down' = 0
  /\ run_up' = 0
  /\ UNCHANGED <<selected, suggestions, highlighted_index, ignore_focus,
                 panicked, view_vars>>

\* Escape that also clears ignore_focus.
KeyEscape_disarming ==
  /\ ~panicked
  /\ ignore_blur' = FALSE
  /\ ignore_focus' = FALSE
  /\ highlighted_index' = None
  /\ is_open' = FALSE
  /\ notified' = <<>>
  /\ lastMsg' = [type |-> "InputKeyDown", key |-> "Escape"]
  /\ race' = 0
  /\ lifted' = TRUE
  /\ armed' = IF armed \in {1, 2} THEN 2 ELSE 0
  /\ run_down' = 0
  /\ run_up' = 0
  /\ UNCHANGED <<selected, suggestions, panicked, view_vars>>

\* Msg::InputKeyDown, key() = "Escape"
KeyEscape ==
  /\ ~panicked
  /\ ignore_blur' = FALSE
  /\ highlighted_index' = None
  /\ is_open' = FALSE
  /\ notified' = <<>>
  /\ lastMsg' = [type |-> "InputKeyDown", key |-> "Escape"]
  /\ race' = 0
  /\ lifted' = TRUE
  /\ armed' = IF armed \in {1, 2} THEN 2 ELSE 0
  /\ run_down' = 0
  /\ run_up' = 0
  /\ UNCHANGED <<selected, suggestions, ignore_focus, panicked, view_vars>>

\* Tab that also closes the panel.
KeyTab_closing ==
  /\ ~panicked
  /\ ignore_blur' = FALSE
  /\ is_open' = FALSE
  /\ notified' = <<>>
  /\ lastMsg' = [type |-> "InputKeyDown", key |-> "Tab"]
  /\ race' = 0
  /\ lifted' = TRUE
  /\ armed' = IF armed = 3 THEN 0 ELSE armed
  /\ run_down' = 0
  /\ run_up' = 0
  /\ UNCHANGED <<selected, suggestions, highlighted_index,
                 ignore_focus, panicked, view_vars>>

\* Tab that leaves ignore_blur as it is.
KeyTab_keeping_suppression ==
  /\ ~panicked
  /\ UNCHANGED ignore_blur
  /\ notified' = <<>>
  /\ lastMsg' = [type |-> "InputKeyDown", key |-> "Tab"]
  /\ race' = 0
  /\ lifted' = TRUE
  /\ armed' = IF armed = 3 THEN 0 ELSE armed
  /\ run_down' = 0
  /\ run_up' = 0
  /\ UNCHANGED <<selected, suggestions, is_open, highlighted_index,
                 ignore_focus, panicked, view_vars>>

\* Msg::InputKeyDown, key() = "Tab"
KeyTab ==
  /\ ~panicked
  /\ ignore_blur' = FALSE
  /\ notified' = <<>>
  /\ lastMsg' = [type |-> "InputKeyDown", key |-> "Tab"]
  /\ race' = 0
  /\ lifted' = TRUE
  /\ armed' = IF armed = 3 THEN 0 ELSE armed
  /\ run_down' = 0
  /\ run_up' = 0
  /\ UNCHANGED <<selected, suggestions, is_open, highlighted_index,
                 ignore_focus, panicked, view_vars>>

\* Msg::InputKeyDown, any other key()
KeyOther ==
  /\ ~panicked
  /\ is_open' = TRUE
  /\ notified' = <<>>
  /\ lastMsg' = [type |-> "InputKeyDown", key |-> "a"]
  /\ race' = 0
  /\ lifted' = lifted
  /\ armed' = IF armed = 3 THEN 0 ELSE armed
  /\ run_down' = 0
  /\ run_up' = 0
  /\ UNCHANGED <<selected, suggestions, highlighted_index, ignore_blur,
                 ignore_focus, panicked, view_vars>>

\* InputClick that opens the panel without testing the active element.
InputClick_always_opening(active) ==
  /\ ~panicked
  /\ is_open' = TRUE
  /\ notified' = <<>>
  /\ lastMsg' = [type |-> "InputClick", active |-> active]
  /\ race' = 0
  /\ lifted' = lifted
  /\ armed' = IF armed = 3 THEN 0 ELSE armed
  /\ run_down' = 0
  /\ run_up' = 0
  /\ UNCHANGED <<selected, suggestions, highlighted_index, ignore_blur,
                 ignore_focus, panicked, view_vars>>

\* Msg::InputClick; `active` is whether the document's active element is the
\* input element.
InputClick(active) ==
  /\ ~panicked
  /\ is_open' = IF active THEN TRUE ELSE is_open
  /\ notified' = <<>>
  /\ lastMsg' = [type |-> "InputClick", active |-> active]
  /\ race' = 0
  /\ lifted' = lifted
  /\ armed' = IF armed = 3 THEN 0 ELSE armed
  /\ run_down' = 0
  /\ run_up' = 0
  /\ UNCHANGED <<selected, suggestions, highlighted_index, ignore_blur,
                 ignore_focus, panicked, view_vars>>

\* SuggestionHover that reports the hovered item to the selection handler.
SuggestionHover_notifying(idx) ==
  /\ ~panicked
  /\ idx < view_rows
  /\ highlighted_index' = Some(idx)
  /\ notified' = IF idx < Len(suggestions)
                 THEN <<suggestion_selected(suggestions[idx + 1])>> ELSE <<>>
  /\ lastMsg' = [type |-> "SuggestionHover", idx |-> idx]
  /\ race' = 0
  /\ lifted' = lifted
  /\ armed' = IF armed = 3 THEN 0 ELSE armed
  /\ run_down' = 0
  /\ run_up' = 0
  /\ UNCHANGED <<selected, suggestions, is_open, ignore_blur, ignore_focus,
                 panicked, view_vars>>

\* Msg::SuggestionHover(idx), sent by the MouseEnter handler of rendered row idx.
SuggestionHover(idx) ==
  /\ ~panicked
  /\ idx < view_rows
  /\ highlighted_index' = Some(idx)
  /\ notified' = <<>>
  /\ lastMsg' = [type |-> "SuggestionHover", idx |-> idx]
  /\ race' = 0
  /\ lifted' = lifted
  /\ armed' = IF armed = 3 THEN 0 ELSE armed
  /\ run_down' = 0
  /\ run_up' = 0
  /\ UNCHANGED <<selected, suggestions, is_open, ignore_blur, ignore_focus,
                 panicked, view_vars>>

\* SuggestionClick that calls submit before suggestion_selected.
SuggestionClick_submit_first(idx) ==
  /\ ~panicked
  /\ idx < view_rows
  /\ lastMsg' = [type |-> "SuggestionClick", idx |-> idx]
  /\ race' = IF race = 3 THEN 4 ELSE 0
  /\ lifted' = TRUE
  /\ armed' = IF armed \in {1, 2} THEN 2 ELSE 0
  /\ run_down' = 0
  /\ run_up' = 0
  /\ IF idx < Len(suggestions)
     THEN LET item == suggestions[idx + 1]
          IN /\ selected' = Some(item)
             /\ ignore_blur' = FALSE
             /\ is_open' = FALSE
             /\ highlighted_index' = None
             /\ notified' = <<submit, suggestion_selected(item)>>
             /\ UNCHANGED panicked
     ELSE /\ panicked' = TRUE
          /\ notified' = <<>>
          /\ UNCHANGED <<selected, ignore_blur, is_open, highlighted_index>>
  /\ UNCHANGED <<suggestions, ignore_focus, view_vars>>

\* SuggestionClick that stores the first suggestion whatever row was clicked.
SuggestionClick_selecting_head(idx) ==
  /\ ~panicked
  /\ idx < view_rows
  /\ lastMsg' = [type |-> "SuggestionClick", idx |-> idx]
  /\ race' = IF race = 3 THEN 4 ELSE 0
  /\ lifted' = TRUE
  /\ armed' = IF armed \in {1, 2} THEN 2 ELSE 0
  /\ run_down' = 0
  /\ run_up' = 0
  /\ IF idx < Len(suggestions)
     THEN LET item == suggestions[idx + 1]
          IN /\ selected' = Some(suggestions[1])
             /\ ignore_blur' = FALSE
             /\ is_open' = FALSE
             /\ highlighted_index' = None
             /\ notified' = <<suggestion_selected(item), submit>>
             /\ UNCHANGED panicked
     ELSE /\ panicked' = TRUE
          /\ notified' = <<>>
          /\ UNCHANGED <<selected, ignore_blur, is_open, highlighted_index>>
  /\ UNCHANGED <<suggestions, ignore_focus, view_vars>>

\* SuggestionClick that leaves ignore_blur as it is.
SuggestionClick_keeping_suppression(idx) ==
  /\ ~panicked
  /\ idx < view_rows
  /\ lastMsg' = [type |-> "SuggestionClick", idx |-> idx]
  /\ race' = IF race = 3 THEN 4 ELSE 0
  /\ lifted' = TRUE
  /\ armed' = IF armed \in {1, 2} THEN 2 ELSE 0
  /\ run_down' = 0
  /\ run_up' = 0
  /\ IF idx < Len(suggestions)
     THEN LET item == suggestions[idx + 1]
          IN /\ selected' = Some(item)
             /\ UNCHANGED ignore_blur
             /\ is_open' = FALSE
             /\ highlighted_index' = None
             /\ notified' = <<suggestion_selected(item), submit>>
             /\ UNCHANGED panicked
     ELSE /\ panicked' = TRUE
          /\ notified' = <<>>
          /\ UNCHANGED <<selected, ignore_blur, is_open, highlighted_index>>
  /\ UNCHANGED <<suggestions, ignore_focus, view_vars>>

\* Msg::SuggestionClick(idx), sent by the Click handler of rendered row idx.
SuggestionClick(idx) ==
  /\ ~panicked
  /\ idx < view_rows
  /\ lastMsg' = [type |-> "SuggestionClick", idx |-> idx]
  /\ race' = IF race = 3 THEN 4 ELSE 0
  /\ lifted' = TRUE
  /\ armed' = IF armed \in {1, 2} THEN 2 ELSE 0
  /\ run_down' = 0
  /\ run_up' = 0
  /\ IF idx < Len(suggestions)
     THEN LET item == suggestions[idx + 1]
          IN /\ selected' = Some(item)
             /\ ignore_blur' = FALSE
             /\ is_open' = FALSE
             /\ highlighted_index' = None
             /\ notified' = <<suggestion_selected(item), submit>>
             /\ UNCHANGED panicked
     ELSE /\ panicked' = TRUE
          /\ notified' = <<>>
          /\ UNCHANGED <<selected, ignore_blur, is_open, highlighted_index>>
  /\ UNCHANGED <<suggestions, ignore_focus, view_vars>>

\* fn view: the panel and one row per suggestion are rendered when is_open.
\* The framework renders after update returns, on the next animation frame,
\* so messages can be processed between two renders.
view ==
  /\ ~panicked
  /\ view_open' = is_open
  /\ view_rows' = IF is_open THEN Len(suggestions) ELSE 0
  /\ <<view_open', view_rows'>> # <<view_open, view_rows>>
  /\ UNCHANGED <<model, panicked, notified, lastMsg, run_down, run_up, race,
                 lifted, armed>>

\* The state when the application starts: the widget as Model::new builds it
\* and the embedder as init builds it.
start == Init /\ init

\* One message of the widget, one call of set_suggestions or one render; the
\* embedder is any caller of set_suggestions and its own state stays as init
\* left it.
Next ==
  \/ /\ \E list \in Lists : set_suggestions(list)
     /\ UNCHANGED search_vars
  \/ /\ \E value \in Texts : InputChange(value)
     /\ UNCHANGED search_vars
  \/ /\ InputFocus
     /\ UNCHANGED search_vars
  \/ /\ InputBlur
     /\ UNCHANGED search_vars
  \/ /\ \E value \in BOOLEAN : SetIgnoreSuggestionBlur(value)
     /\ UNCHANGED search_vars
  \/ /\ KeyArrowDown
     /\ UNCHANGED search_vars
  \/ /\ KeyArrowUp
     /\ UNCHANGED search_vars
  \/ /\ \E key_code \in KeyCodes : KeyEnter(key_code)
     /\ UNCHANGED search_vars
  \/ /\ KeyEscape
     /\ UNCHANGED search_vars
  \/ /\ KeyTab
     /\ UNCHANGED search_vars
  \/ /\ KeyOther
     /\ UNCHANGED search_vars
  \/ /\ \E active \in BOOLEAN : InputClick(active)
     /\ UNCHANGED search_vars
  \/ /\ \E idx \in 0..(MaxLen - 1) : SuggestionHover(idx)
     /\ UNCHANGED search_vars
  \/ /\ \E idx \in 0..(MaxLen - 1) : SuggestionClick(idx)
     /\ UNCHANGED search_vars
  \/ /\ view
     /\ UNCHANGED search_vars

Spec == start /\ [][Next]_vars

----------------------------------------------------------------------------
(***************************************************************************)
(* The search autocomplete of the example (src/example/src/lib.rs): the    *)
(* embedder keeps the set of submitted searches and suggests those that    *)
(* start with the text of the input.  The framework processes the messages *)
(* sent with orders.send_msg, in order, before the next browser event.     *)
(***************************************************************************)

\* The three handlers of search_autocomplete all return Some.
search_handlers == {"input_changed", "suggestion_selected", "submit"}

\* The UTF-8 bytes of the strings that occur.
bytes(s) ==
  CASE s = "" -> <<>>
    [] s = "a" -> <<97>>
    [] s = "al" -> <<97, 108>>

\* str::starts_with
starts_with(s, prefix) ==
  /\ Len(bytes(prefix)) <= Len(bytes(s))
  /\ SubSeq(bytes(s), 1, Len(bytes(prefix))) = bytes(prefix)

\* The order of str: byte-wise lexicographic.
RECURSIVE byte_less(_, _)
byte_less(a, b) ==
  IF a = <<>> THEN b # <<>>
  ELSE IF b = <<>> THEN FALSE
  ELSE IF Head(a) # Head(b) THEN Head(a) < Head(b)
  ELSE byte_less(Tail(a), Tail(b))

\* The keys of a TSTSet in the order its iterators yield them.
RECURSIVE in_order(_)
in_order(set) ==
  IF set = {} THEN <<>>
  ELSE LET first == CHOOSE s \in set :
                      \A t \in set \ {s} : byte_less(bytes(s), bytes(t))
       IN <<first>> \o in_order(set \ {first})

\* TSTSet::prefix_iter(prefix).collect()
prefix_iter(set, prefix) == in_order({s \in set : starts_with(s, prefix)})

\* Msg::SearchAutocomplete(msg): a browser event of the search input or panel,
\* handed to the widget's update; the messages its handlers return are sent.
SearchAutocomplete(update) ==
  /\ ~assert_failed
  /\ msgs = <<>>
  /\ update
  /\ msgs' = send_msg(notified', search_handlers)
  /\ UNCHANGED <<search_previous, search_input_value, search, assert_failed>>

\* The example's fn view renders the widget; it sends nothing.
SearchView ==
  /\ ~assert_failed
  /\ msgs = <<>>
  /\ view
  /\ UNCHANGED search_vars

\* SearchInputChange that suggests the text of the input itself.
SearchInputChange_suggesting_input ==
  /\ ~assert_failed
  /\ msgs # <<>>
  /\ Head(msgs).type = "input_changed"
  /\ set_suggestions(<<Head(msgs).arg>>)
  /\ search_input_value' = Head(msgs).arg
  /\ msgs' = Tail(msgs)
  /\ UNCHANGED <<search_previous, search, assert_failed>>

\* Msg::SearchInputChange(value)
SearchInputChange ==
  /\ ~assert_failed
  /\ msgs # <<>>
  /\ Head(msgs).type = "input_changed"
  /\ set_suggestions(prefix_iter(search_previous, Head(msgs).arg))
  /\ search_input_value' = Head(msgs).arg
  /\ msgs' = Tail(msgs)
  /\ UNCHANGED <<search_previous, search, assert_failed>>

\* Msg::SearchSubmitted
SearchSubmitted ==
  /\ ~assert_failed
  /\ msgs # <<>>
  /\ Head(msgs).type = "submit"
  /\ search_previous' = search_previous \cup {search_input_value}
  /\ search_input_value' = search_input_value
  /\ search' = Some(search_input_value)
  /\ msgs' = Tail(msgs)
  /\ UNCHANGED assert_failed
  /\ UNCHANGED <<model, panicked, notified, lastMsg, run_down, run_up, race,
                 lifted, armed, view_vars>>

\* Msg::SearchSelected(value)
SearchSelected ==
  /\ ~assert_failed
  /\ msgs # <<>>
  /\ Head(msgs).type = "suggestion_selected"
  /\ IF Head(msgs).arg \in search_previous
     THEN /\ search_input_value' = Head(msgs).arg
          /\ search' = Some(Head(msgs).arg)
          /\ UNCHANGED assert_failed
     ELSE /\ assert_failed' = TRUE
          /\ UNCHANGED <<search_input_value, search>>
  /\ msgs' = Tail(msgs)
  /\ UNCHANGED search_previous
  /\ UNCHANGED <<model, panicked, notified, lastMsg, run_down, run_up, race,
                 lifted, armed, view_vars>>

\* The example's fn update for the search messages, and its view.
SearchNext ==
  \/ \E value \in Texts : SearchAutocomplete(InputChange(value))
  \/ SearchAutocomplete(InputFocus)
  \/ SearchAutocomplete(InputBlur)
  \/ \E value \in BOOLEAN : SearchAutocomplete(SetIgnoreSuggestionBlur(value))
  \/ SearchAutocomplete(KeyArrowDown)
  \/ SearchAutocomplete(KeyArrowUp)
  \/ \E key_code \in KeyCodes : SearchAutocomplete(KeyEnter(key_code))
  \/ SearchAutocomplete(KeyEscape)
  \/ SearchAutocomplete(KeyTab)
  \/ SearchAutocomplete(KeyOther)
  \/ \E active \in BOOLEAN : SearchAutocomplete(InputClick(active))
  \/ \E idx \in 0..(MaxLen - 1) : SearchAutocomplete(SuggestionHover(idx))
  \/ \E idx \in 0..(MaxLen - 1) : SearchAutocomplete(SuggestionClick(idx))
  \/ SearchView
  \/ SearchInputChange
  \/ SearchSubmitted
  \/ SearchSelected

SearchSpec == start /\ [][SearchNext]_vars

----------------------------------------------------------------------------
\* Reading the history variable lastMsg.
IsKey(m, key) == m.type = "InputKeyDown" /\ m.key = key
IsEnter(m) == IsKey(m, "Enter") /\ m.key_code = EnterKeyCode

\* A step of update or set_suggestions (the view action alone changes view_vars).
Processed == UNCHANGED view_vars

\* The step processes Enter (code 13) with the panel open and a highlight set.
EnterWithHighlight ==
  Processed /\ IsEnter(lastMsg') /\ is_open /\ highlighted_index # None

\* C1: in every reachable state, a set highlighted_index is an index of
\* suggestions: 0 <= highlighted_index < len(suggestions).
C1_HighlightInRange ==
  highlighted_index # None =>
    (0 <= highlighted_index[1] /\ highlighted_index[1] < Len(suggestions))

\* C2: every event is total: no event faults, and a SuggestionClick(idx) or
\* SuggestionHover(idx) with idx >= len(suggestions) changes no field and
\* calls no handler.
C2_Total ==
  [][/\ ~panicked'
     /\ (/\ Processed
         /\ lastMsg'.type \in {"SuggestionClick", "SuggestionHover"}
         /\ lastMsg'.idx >= Len(suggestions))
        => (UNCHANGED model /\ notified' = <<>>)]_vars

\* C3: a Blur processed while ignore_blur is set leaves is_open and
\* highlighted_index alone and sets ignore_focus; a Focus processed while
\* ignore_focus is set changes nothing but ignore_focus, which it clears; and
\* the Focus that follows a swallowed Focus is not swallowed and opens the panel.
C3_SuppressedBlur ==
  [][Processed =>
     /\ (lastMsg'.type = "InputBlur" /\ ignore_blur)
        => /\ lastMsg'.suppressed
           /\ is_open' = is_open
           /\ highlighted_index' = highlighted_index
           /\ ignore_focus' = TRUE
     /\ (lastMsg'.type = "InputFocus" /\ ignore_focus)
        => /\ lastMsg'.swallowed
           /\ ignore_focus' = FALSE
           /\ notified' = <<>>
           /\ UNCHANGED <<selected, suggestions, is_open, highlighted_index,
                          ignore_blur, panicked>>
     /\ (/\ lastMsg'.type = "InputFocus"
         /\ lastMsg.type = "InputFocus"
         /\ lastMsg.swallowed)
        => /\ ~lastMsg'.swallowed
           /\ is_open' = TRUE]_vars

\* C3 witness: the panel is still open after a suppressed Blur and the Focus
\* that was swallowed.
C3_Witness ==
  /\ lastMsg.type = "InputFocus"
  /\ lastMsg.swallowed
  /\ is_open
  /\ ignore_blur
  /\ ~ignore_focus

\* C4: in an event that confirms a selection (Enter with the panel open and
\* an item highlighted, or SuggestionClick) every submit call comes after the
\* suggestion_selected call, and whatever handlers return a message, no
\* submit message is sent before the suggestion_selected message.
C4_SelectedBeforeSubmit ==
  [][(EnterWithHighlight \/ (Processed /\ lastMsg'.type = "SuggestionClick"))
     => /\ \A j \in 1..Len(notified') :
             notified'[j].type = "submit"
             => \E k \in 1..(j - 1) : notified'[k].type = "suggestion_selected"
        /\ \A handlers \in HandlerConfigs :
             \A j, k \in 1..Len(send_msg(notified', handlers)) :
               (/\ send_msg(notified', handlers)[j].type = "submit"
                /\ send_msg(notified', handlers)[k].type = "suggestion_selected")
               => k < j]_vars

\* C4 witness: a click confirmed a selection and made both calls.
C4_Witness ==
  /\ lastMsg.type = "SuggestionClick"
  /\ Len(notified) = 2
  /\ notified[1].type = "suggestion_selected"
  /\ notified[2].type = "submit"

\* C5, state part: after k consecutive ArrowDown presses that started with no
\* highlight on a list of n > 0 items, the highlight is min(k, n) - 1.
C5_Run ==
  run_down > 0 =>
    highlighted_index = Some(Min(run_down, Len(suggestions)) - 1)

\* C5, step part: ArrowDown on a non-empty list moves None to 0 and i to i + 1,
\* and leaves the highlight where it is when i + 1 is past the last index.
C5_Step ==
  (Processed /\ IsKey(lastMsg', "ArrowDown") /\ suggestions # <<>>) =>
    /\ highlighted_index = None => highlighted_index' = Some(0)
    /\ (/\ highlighted_index # None
        /\ highlighted_index[1] + 1 < Len(suggestions))
       => highlighted_index' = Some(highlighted_index[1] + 1)
    /\ (/\ highlighted_index # None
        /\ highlighted_index[1] + 1 >= Len(suggestions))
       => highlighted_index' = highlighted_index

\* C5: ArrowDown moves the highlight None -> 0 -> 1 -> ... -> n-1 and then
\* keeps it at n-1, however many times it is pressed.
C5_ArrowDown == []C5_Run /\ [][C5_Step]_vars

\* C5 witness: ArrowDown was pressed more often than the list is long.
C5_Witness ==
  /\ Len(suggestions) >= 2
  /\ run_down > Len(suggestions)
  /\ highlighted_index = Some(Len(suggestions) - 1)

\* C6, state part: after k consecutive ArrowUp presses that started with no
\* highlight on a list of n > 0 items, the highlight is max(n - k, 0).
C6_Run ==
  run_up > 0 => highlighted_index = Some(Max(Len(suggestions) - run_up, 0))

\* C6, step part: ArrowUp on a non-empty list moves None to n-1 and i > 0 to
\* i - 1, and leaves index 0 where it is.
C6_Step ==
  (Processed /\ IsKey(lastMsg', "ArrowUp") /\ suggestions # <<>>) =>
    /\ highlighted_index = None
       => highlighted_index' = Some(Len(suggestions) - 1)
    /\ (highlighted_index # None /\ highlighted_index[1] > 0)
       => highlighted_index' = Some(highlighted_index[1] - 1)
    /\ highlighted_index = Some(0) => highlighted_index' = Some(0)

\* C6: from no highlight the first ArrowUp lands on n-1, further presses
\* decrement to 0, and ArrowUp at 0 stays at 0.
C6_ArrowUp == []C6_Run /\ [][C6_Step]_vars

\* C6 witness: ArrowUp was pressed more often than the list is long.
C6_Witness ==
  /\ Len(suggestions) >= 2
  /\ run_up > Len(suggestions)
  /\ highlighted_index = Some(0)

\* C7: after Escape is processed the panel is closed, nothing is highlighted
\* and no handler was called, whatever ignore_blur and ignore_focus were.
C7_Escape ==
  IsKey(lastMsg, "Escape") =>
    (~is_open /\ highlighted_index = None /\ notified = <<>>)

\* C7 witness: Escape was processed while ignore_focus was armed by a
\* suppressed Blur and the rendered view still shows the open panel.
C7_Witness ==
  /\ IsKey(lastMsg, "Escape")
  /\ ignore_focus
  /\ view_open
  /\ ~is_open

\* The step reads highlighted_index: ArrowDown or ArrowUp on a non-empty list,
\* Enter (code 13) with the panel open, or a render of the open panel.
ReadsHighlight ==
  \/ /\ Processed
     /\ \/ IsKey(lastMsg', "ArrowDown") /\ suggestions # <<>>
        \/ IsKey(lastMsg', "ArrowUp") /\ suggestions # <<>>
        \/ IsEnter(lastMsg') /\ is_open
  \/ ~Processed /\ is_open

\* C8: after set_suggestions has shortened the list no later event or render
\* reads a highlight that is out of range: whenever highlighted_index is read
\* it is None or an index of the current list.
C8_NoStaleRead ==
  [][ReadsHighlight
     => (highlighted_index = None \/ highlighted_index[1] < Len(suggestions))]_vars

\* C9: selected changes only when Enter is processed with the panel open and
\* an item highlighted, or when SuggestionClick is processed.
C9_SelectedFrame ==
  [][selected' # selected
     => (EnterWithHighlight \/ (Processed /\ lastMsg'.type = "SuggestionClick"))]_vars

\* C9 witness: set_suggestions removed the selected item from the list and
\* selected still holds it.
C9_Witness ==
  /\ lastMsg.type = "set_suggestions"
  /\ selected # None
  /\ suggestions # <<>>
  /\ \A i \in 1..Len(suggestions) : suggestions[i] # selected[1]

\* C10: Enter (code 13) with the panel open and highlight i sets selected to
\* suggestions[i], closes the panel, clears the highlight and ignore_blur, and
\* calls suggestion_selected(suggestions[i]) and then submit.
C10_EnterSelects ==
  [][EnterWithHighlight
     => /\ ~panicked'
        /\ highlighted_index[1] < Len(suggestions)
        /\ selected' = Some(suggestions[highlighted_index[1] + 1])
        /\ ~is_open'
        /\ highlighted_index' = None
        /\ ~ignore_blur'
        /\ notified' = <<suggestion_selected(suggestions[highlighted_index[1] + 1]),
                         submit>>]_vars

\* The step takes is_open from true to false.
Closes == is_open /\ ~is_open'

\* C11, state part: a closed panel has no highlighted item.
C11_Closed == ~is_open => highlighted_index = None

\* C11: every transition that takes is_open from true to false leaves
\* highlighted_index = None, and in every reachable state a closed panel has
\* no highlighted item.
C11_ClosedNoHighlight ==
  /\ []C11_Closed
  /\ [][Closes => highlighted_index' = None]_vars

\* C12, state part: the panel is open after each of the first three events of
\* the order.
C12_OpenMeanwhile == race \in 1..3 => is_open

\* C12: in the order SetIgnoreSuggestionBlur(true), InputBlur, InputFocus,
\* SuggestionClick(idx) started from an open panel, the panel is open in every
\* state before the click; the click with idx < len(suggestions) then sets
\* selected to suggestions[idx], closes the panel and calls suggestion_selected.
C12_BlurClickRace ==
  /\ []C12_OpenMeanwhile
  /\ [][(/\ Processed
         /\ race = 3
         /\ race' = 4
         /\ lastMsg'.idx < Len(suggestions))
        => /\ selected' = Some(suggestions[lastMsg'.idx + 1])
           /\ ~is_open'
           /\ Len(notified') >= 1
           /\ notified'[1] = suggestion_selected(suggestions[lastMsg'.idx + 1])]_vars

\* C12 witness: the four events were processed in that order and the click
\* selected an item of a list of several.
C12_Witness ==
  /\ race = 4
  /\ ~panicked
  /\ ~is_open
  /\ lastMsg.idx >= 1
  /\ selected = Some(suggestions[lastMsg.idx + 1])

\* C13: SuggestionClick(idx) with idx < len(suggestions) sets selected to
\* suggestions[idx], clears ignore_blur, closes the panel and clears the
\* highlight, whatever the state before.
C13_Click ==
  [][(/\ Processed
      /\ lastMsg'.type = "SuggestionClick"
      /\ lastMsg'.idx < Len(suggestions))
     => /\ selected' = Some(suggestions[lastMsg'.idx + 1])
        /\ ~ignore_blur'
        /\ ~is_open'
        /\ highlighted_index' = None
        /\ ~panicked']_vars

\* C13 witness: a click was processed outside the blur/click order, while
\* ignore_focus was armed, and selected the clicked item.
C13_Witness ==
  /\ lastMsg.type = "SuggestionClick"
  /\ race = 0
  /\ ignore_focus
  /\ ~panicked
  /\ selected = Some(suggestions[lastMsg.idx + 1])

C15_ImeEnter ==
  [][(/\ Processed
      /\ IsKey(lastMsg', "Enter")
      /\ lastMsg'.key_code # EnterKeyCode)
     => (UNCHANGED <<model, panicked>> /\ notified' = <<>>)]_vars

\* C15 witness: a composition Enter was processed with the panel open, an
\* item highlighted and ignore_blur set, and all three are as they were.
C15_Witness ==
  /\ IsKey(lastMsg, "Enter")
  /\ lastMsg.key_code = ImeKeyCode
  /\ lastMsg.was_open
  /\ is_open
  /\ highlighted_index # None
  /\ ignore_blur

\* C16: Tab clears ignore_blur, leaves is_open, highlighted_index, selected
\* and suggestions unchanged, and calls no handler.
C16_Tab ==
  [][(Processed /\ IsKey(lastMsg', "Tab"))
     => /\ ~ignore_blur'
        /\ notified' = <<>>
        /\ UNCHANGED <<is_open, highlighted_index, selected, suggestions,
                       ignore_focus, panicked>>]_vars

\* C16 witness: Tab was processed and the panel is still open with an item
\* highlighted.
C16_Witness ==
  /\ IsKey(lastMsg, "Tab")
  /\ is_open
  /\ highlighted_index # None
  /\ ~ignore_blur

\* C17: once SetIgnoreSuggestionBlur(false), Escape, Tab, Enter (code 13) or
\* SuggestionClick was processed and no SetIgnoreSuggestionBlur(true) since,
\* the next InputBlur closes the panel, clears the highlight and leaves
\* ignore_focus as it is.
C17_ClosingResumes ==
  [][(Processed /\ lastMsg'.type = "InputBlur" /\ lifted)
     => /\ ~lastMsg'.suppressed
        /\ ~is_open'
        /\ highlighted_index' = None
        /\ ignore_focus' = ignore_focus]_vars

\* C17 witness: suppression was lifted and a Blur after it was not suppressed.
C17_Witness ==
  /\ lastMsg.type = "InputBlur"
  /\ lifted
  /\ ~lastMsg.suppressed
  /\ ~is_open
  /\ view_open

\* C18: ArrowDown and ArrowUp change no field when the list is empty, and
\* with a non-empty list the panel is open after the event, in every
\* reachable state.
C18_ArrowsOpen ==
  [][(Processed /\ (IsKey(lastMsg', "ArrowDown") \/ IsKey(lastMsg', "ArrowUp")))
     => /\ suggestions = <<>> => UNCHANGED <<model, panicked>>
        /\ suggestions # <<>> => is_open']_vars

\* C19: InputFocus processed while ignore_focus is false, any key other than
\* ArrowDown, ArrowUp, Enter, Escape and Tab, and InputClick while the input
\* is the active element each leave is_open = true and highlighted_index,
\* selected, suggestions and ignore_blur unchanged; InputClick while the
\* input is not the active element changes nothing.
C19_OpenTriggers ==
  [][Processed =>
     /\ (\/ lastMsg'.type = "InputFocus" /\ ~ignore_focus
         \/ IsKey(lastMsg', "a")
         \/ lastMsg'.type = "InputClick" /\ lastMsg'.active)
        => /\ is_open'
           /\ UNCHANGED <<highlighted_index, selected, suggestions,
                          ignore_blur>>
     /\ (lastMsg'.type = "InputClick" /\ ~lastMsg'.active)
        => UNCHANGED <<model, panicked>>]_vars

\* C19 witness: a click on the input that is not the active element left the
\* panel closed.
C19_Witness ==
  /\ lastMsg.type = "InputClick"
  /\ ~lastMsg.active
  /\ ~is_open
  /\ suggestions # <<>>

\* C20: set_suggestions(list) makes suggestions equal to list, in its order,
\* leaves is_open, selected, ignore_blur and ignore_focus unchanged and calls
\* no handler.
C20_SetSuggestions ==
  [][(Processed /\ lastMsg'.type = "set_suggestions")
     => /\ suggestions' = lastMsg'.list
        /\ notified' = <<>>
        /\ UNCHANGED <<is_open, selected, ignore_blur, ignore_focus,
                       panicked>>]_vars

\* C20 witness: the list was replaced by the empty list while the panel was
\* open and suppression was on, and both are as they were.
C20_Witness ==
  /\ lastMsg.type = "set_suggestions"
  /\ lastMsg.list = <<>>
  /\ suggestions = <<>>
  /\ is_open
  /\ ignore_blur
  /\ selected # None

\* C21: InputChange(text) calls the input_changed handler exactly once, with
\* exactly that text, calls no other handler, and changes none of is_open,
\* highlighted_index, selected, suggestions, ignore_blur and ignore_focus.
C21_InputChange ==
  [][(Processed /\ lastMsg'.type = "InputChange")
     => /\ notified' = <<input_changed(lastMsg'.value)>>
        /\ UNCHANGED <<model, panicked>>]_vars

\* C21 witness: a text was typed while the panel was closed, an item was
\* selected earlier and ignore_focus was armed; the handler got the text and
\* the panel is still closed.
C21_Witness ==
  /\ lastMsg.type = "InputChange"
  /\ notified = <<input_changed(lastMsg.value)>>
  /\ lastMsg.value = "al"
  /\ ~is_open
  /\ ignore_focus
  /\ selected # None

\* The handler calls of a step are those of a confirmed selection: the
\* suggestion_selected call for some item, then submit.
SelectedThenSubmit(calls) ==
  /\ Len(calls) = 2
  /\ calls[1].type = "suggestion_selected"
  /\ calls[2] = submit

\* C22: a step that calls a handler processes InputChange (input_changed
\* only), Enter with key code 13 (submit, preceded by suggestion_selected only
\* when the panel is open with a highlight) or SuggestionClick
\* (suggestion_selected, then submit); InputFocus, InputBlur,
\* SetIgnoreSuggestionBlur, ArrowDown, ArrowUp, Escape, Tab, other keys,
\* SuggestionHover, InputClick, set_suggestions and Enter with another key
\* code call no handler in any state.
C22_NotificationSources ==
  [][Processed =>
     /\ notified' # <<>> =>
          \/ /\ lastMsg'.type = "InputChange"
             /\ Len(notified') = 1
             /\ notified'[1].type = "input_changed"
          \/ /\ IsEnter(lastMsg')
             /\ \/ notified' = <<submit>>
                \/ /\ is_open
                   /\ highlighted_index # None
                   /\ SelectedThenSubmit(notified')
          \/ /\ lastMsg'.type = "SuggestionClick"
             /\ SelectedThenSubmit(notified')
     /\ (\/ lastMsg'.type \in {"InputFocus", "InputBlur",
                               "SetIgnoreSuggestionBlur", "SuggestionHover",
                               "InputClick", "set_suggestions"}
         \/ /\ lastMsg'.type = "InputKeyDown"
            /\ ~IsEnter(lastMsg'))
        => notified' = <<>>]_vars

\* C22 witness: a hover over a rendered row was processed while the panel was
\* open and suppression was on; the row is highlighted and no handler was
\* called.
C22_Witness ==
  /\ lastMsg.type = "SuggestionHover"
  /\ highlighted_index = Some(lastMsg.idx)
  /\ lastMsg.idx < Len(suggestions)
  /\ is_open
  /\ ignore_blur
  /\ notified = <<>>

\* C23, state part: while the calls of the last message are the ones the
\* embedder reacts to, get_selection() returns the item that was passed to
\* suggestion_selected.
C23_GetSelection ==
  \A j \in 1..Len(notified) :
    notified[j].type = "suggestion_selected" => selected = Some(notified[j].arg)

\* C23, step part: an item passed to suggestion_selected is an element of
\* suggestions when the event is processed and is selected after the event,
\* and selected changes only in an event that calls suggestion_selected.
C23_Step ==
  Processed =>
    /\ \A j \in 1..Len(notified') :
         notified'[j].type = "suggestion_selected"
         => /\ \E i \in 1..Len(suggestions) : suggestions[i] = notified'[j].arg
            /\ selected' = Some(notified'[j].arg)
    /\ selected' # selected
       => \E j \in 1..Len(notified') : notified'[j].type = "suggestion_selected"

\* C23: selection and notification agree: whenever suggestion_selected(item)
\* is called, item is in the suggestion list of that moment and selected is
\* item after the event, so that get_selection() read in reaction returns
\* item; and selected never changes in an event that does not call
\* suggestion_selected.
C23_SelectionAgrees == []C23_GetSelection /\ [][C23_Step]_vars

\* C23 witness: Enter confirmed the highlighted item of a list of several;
\* the handler got the item that get_selection() returns.
C23_Witness ==
  /\ IsEnter(lastMsg)
  /\ Len(notified) = 2
  /\ notified[1].type = "suggestion_selected"
  /\ selected = Some(notified[1].arg)
  /\ Len(suggestions) >= 2
  /\ selected = Some(suggestions[2])

\* C24, frame part: ignore_focus changes only in InputBlur and InputFocus
\* steps; InputBlur sets it exactly when ignore_blur is set and leaves it
\* otherwise, InputFocus leaves it false; Enter, Escape, Tab, SuggestionClick
\* and SetIgnoreSuggestionBlur leave it unchanged.
C24_Frame ==
  Processed =>
    /\ ignore_focus' # ignore_focus
       => lastMsg'.type \in {"InputBlur", "InputFocus"}
    /\ lastMsg'.type = "InputBlur"
       => ignore_focus' = IF ignore_blur THEN TRUE ELSE ignore_focus
    /\ lastMsg'.type = "InputFocus" => ~ignore_focus'
    /\ (\/ IsKey(lastMsg', "Enter")
        \/ IsKey(lastMsg', "Escape")
        \/ IsKey(lastMsg', "Tab")
        \/ lastMsg'.type \in {"SuggestionClick", "SetIgnoreSuggestionBlur"})
       => ignore_focus' = ignore_focus

\* C24, consequence: an InputFocus processed after a suppressed InputBlur and
\* then Escape or SuggestionClick, with no InputFocus since that InputBlur, is
\* swallowed and leaves is_open as it is; when it comes directly after the
\* Escape or SuggestionClick the panel is closed and stays closed.
C24_NextFocus ==
  (Processed /\ lastMsg'.type = "InputFocus" /\ armed = 2) =>
    /\ lastMsg'.swallowed
    /\ is_open' = is_open
    /\ (IsKey(lastMsg, "Escape") \/ lastMsg.type = "SuggestionClick")
       => (~is_open /\ ~is_open')

\* C24: ignore_focus is written only by InputBlur (true, exactly when
\* ignore_blur is set) and InputFocus (false); consequently after a
\* suppressed InputBlur followed by Escape or SuggestionClick with no
\* InputFocus in between, the next InputFocus is swallowed and the panel
\* stays closed.
C24_IgnoreFocusWriters == [][C24_Frame /\ C24_NextFocus]_vars

\* C24 witness: the InputFocus that followed a suppressed InputBlur and then
\* an Escape or a SuggestionClick was swallowed, and the panel is closed in
\* the model while the rendered view still shows it.
C24_Witness ==
  /\ armed = 3
  /\ lastMsg.type = "InputFocus"
  /\ lastMsg.swallowed
  /\ ~is_open
  /\ ~ignore_focus
  /\ selected # None
  /\ view_open

\* C25, state part: the assertion has not failed, every SearchSelected(value)
\* waiting to be delivered carries a previous search, and the suggestion list
\* holds previous searches that share a prefix.
C25_Contained ==
  /\ ~assert_failed
  /\ \A j \in 1..Len(msgs) :
       msgs[j].type = "suggestion_selected" => msgs[j].arg \in search_previous
  /\ \A i \in 1..Len(suggestions) : suggestions[i] \in search_previous
  /\ \E prefix \in Texts :
       \A i \in 1..Len(suggestions) : starts_with(suggestions[i], prefix)

\* C25: in the search example the assertion of SearchSelected never fails:
\* every value delivered as SearchSelected(value) is in search_previous at
\* delivery, the suggestion list is always a prefix-filtered subset of
\* search_previous, and search_previous only grows.
C25_SearchAssertion ==
  /\ []C25_Contained
  /\ [][search_previous \subseteq search_previous']_vars

\* C25 witness: with two previous searches suggested, the second row was
\* clicked and SearchSelected was delivered: its value is the text of the
\* input and the last search, and SearchSubmitted is still to be delivered.
C25_Witness ==
  /\ lastMsg.type = "SuggestionClick"
  /\ lastMsg.idx = 1
  /\ msgs = <<submit>>
  /\ selected = Some("al")
  /\ search_input_value = "al"
  /\ search = Some("al")
  /\ {"a", "al"} \subseteq search_previous
  /\ ~assert_failed
====
